---- MODULE Spec2Model ----
(***************************************************************************)
(* Livestream demo client: the Session Controller (App.tsx) and the        *)
(* Broadcaster View (components/LiveStreamBroadcaster.tsx) with the        *)
(* transport (livekit-client Room, local tracks) as their environment.     *)
(***************************************************************************)
EXTENDS Integers, Sequences, FiniteSets, TLC

\* ---------------------------------------------------------------- bounds
MaxRooms == 2      \* Room objects created over a run
MaxTracks == 2     \* local capture tracks acquired over a run
MaxChat == 1       \* entries kept in the chat log
MaxCalls == 2      \* handler invocations suspended at an await
MaxPeers == 1      \* remote participants in a room

\* ------------------------------------------------------------- constants
NoRoom == 0        \* room state is null
NoTrack == 0       \* videoTrack.current / audioTrack.current is null
Undefined == "<undefined>"

Names == {"", " ", "demo", "live"}
Users == {"", "Alice"}
DefaultUrl == "ws://192.168.1.100:7880"
Urls == {"", DefaultUrl}
Tokens == {"abc", "xyz"}
ErrorTexts == {"", "room full"}

NoAlert == <<>>
ValidationAlert == <<"Please enter room name and your name">>
StreamAlert == <<"Failed to start streaming. Please check camera/microphone permissions.">>
NoReq == [kind |-> "none", identity |-> "", room |-> ""]

RoomIds == 1..MaxRooms
TrackIds == 1..MaxTracks
CallIds == 1..MaxCalls

\* a Room / track identity that stands for no object
EmptyRoom == [state |-> "unused", closing |-> FALSE, live |-> FALSE, peers |-> 0]
EmptyTrack == [kind |-> "none", stopped |-> FALSE, pub |-> NoRoom, muted |-> FALSE]

VARIABLES
  \* App.tsx state
  mode, roomName, userName, serverUrl, token, isLoading,
  req,              \* the credential request in flight (generateToken awaiting fetch)
  alertMsg,         \* the alert() dialog on screen; it blocks the event loop
  \* LiveStreamBroadcaster.tsx state and refs of the mounted instance
  room, connected, isStreaming, chatMessages, chatInput, viewerCount,
  connectionState, videoEnabled, audioEnabled, videoTrack, audioTrack,
  cleanupRoom,      \* `room` as captured by the closure of the effect's cleanup
  effectRan,        \* the effect passed its guard and returned a cleanup
  \* transport objects
  rooms,            \* Room objects: SDK state, close requested, listeners' component mounted
  tracks,           \* local tracks: kind, stopped, room it is published in
  calls,            \* startStreaming / stopStreaming invocations suspended at an await
  onDisconnectCalls \* times the last step invoked the onDisconnect prop

appVars == <<mode, roomName, userName, serverUrl, token, isLoading, req, alertMsg>>
viewVars == <<room, connected, isStreaming, chatMessages, chatInput, viewerCount, connectionState,
              videoEnabled, audioEnabled, videoTrack, audioTrack, cleanupRoom, effectRan>>
sdkVars == <<rooms, tracks, calls>>
vars == <<appVars, viewVars, sdkVars, onDisconnectCalls>>

\* ------------------------------------------------------------ pure helpers
\* JavaScript truthiness of a string-or-undefined value ('' and undefined are falsy)
Truthy(s) == s # "" /\ s # Undefined

\* String.prototype.trim on the names of the model
Trim(s) == IF s = " " THEN "" ELSE s

\* ErrorOr with the backend's error text ignored
ErrorOrFallbackOnly(e) == "Failed to generate token"

\* errorData.error || 'Failed to generate token'
ErrorOr(e) == IF Truthy(e) THEN e ELSE "Failed to generate token"

FreeRooms == {r \in RoomIds : rooms[r].state = "unused"}
FreeTracks == {t \in TrackIds : tracks[t].kind = "none"}
Min(S) == CHOOSE x \in S : \A y \in S : x <= y

ActiveStates == {"connecting", "connected", "reconnecting"}

StopTracks(trs, S) ==
  [t \in TrackIds |-> IF t \in S THEN [trs[t] EXCEPT !.stopped = TRUE] ELSE trs[t]]

\* ------------------------------------------------------------------- Init
ViewInitial ==
  /\ room = NoRoom /\ connected = FALSE /\ isStreaming = FALSE
  /\ chatMessages = <<>> /\ chatInput = "" /\ viewerCount = 0
  /\ connectionState = "disconnected"
  /\ videoEnabled = TRUE /\ audioEnabled = TRUE
  /\ videoTrack = NoTrack /\ audioTrack = NoTrack
  /\ cleanupRoom = NoRoom /\ effectRan = FALSE

Init ==
  /\ mode = "home" /\ roomName = "" /\ userName = "" /\ serverUrl = DefaultUrl
  /\ token = "" /\ isLoading = FALSE /\ req = NoReq /\ alertMsg = NoAlert
  /\ ViewInitial
  /\ rooms = [r \in RoomIds |-> EmptyRoom]
  /\ tracks = [t \in TrackIds |-> EmptyTrack]
  /\ calls = <<>>
  /\ onDisconnectCalls = 0

\* ------------------------------------------------- Broadcaster mount/unmount
\* The component function's useState / useRef initial values
ViewFresh ==
  /\ connected' = FALSE /\ isStreaming' = FALSE /\ chatMessages' = <<>>
  /\ chatInput' = "" /\ viewerCount' = 0
  /\ videoEnabled' = TRUE /\ audioEnabled' = TRUE
  /\ videoTrack' = NoTrack /\ audioTrack' = NoTrack
  /\ cleanupRoom' = NoRoom

\* The state of an instance that is not mounted (nothing is held)
ViewGone ==
  /\ ViewFresh
  /\ room' = NoRoom /\ connectionState' = "disconnected" /\ effectRan' = FALSE

\* connectToRoom up to `await newRoom.connect(serverUrl, token)`: the Room is
\* created and stored, the listeners are registered, connect() is started and
\* the Room reports ConnectionStateChanged(connecting) to its listener.
ConnectToRoom(rms) ==
  LET newRoom == Min({r \in RoomIds : rms[r].state = "unused"}) IN
  /\ room' = newRoom
  /\ rooms' = [rms EXCEPT ![newRoom] = [state |-> "connecting", closing |-> FALSE, live |-> TRUE, peers |-> 0]]
  /\ connectionState' = "connecting"
  /\ effectRan' = TRUE

\* First render and first run of the effect with the props (tok, url)
MountBroadcaster(tok, url) ==
  /\ ViewFresh
  /\ IF ~Truthy(tok) \/ ~Truthy(url)
       THEN /\ room' = NoRoom /\ connectionState' = "disconnected" /\ effectRan' = FALSE
            /\ rooms' = rooms
       ELSE ConnectToRoom(rooms)

\* room.disconnect(): close requested; a Room already disconnected ignores it
RequestClose(rms, r) ==
  IF r # NoRoom /\ rms[r].state \in ActiveStates
    THEN [rms EXCEPT ![r].closing = TRUE]
    ELSE rms

\* CleanupTracks without the stop() calls
CleanupTracksNoStop(trs) == trs

\* The effect's cleanup: `room` is the value its closure captured
CleanupRooms(rms) == IF effectRan THEN RequestClose(rms, cleanupRoom) ELSE rms
CleanupTracks(trs) ==
  IF effectRan THEN StopTracks(trs, {videoTrack, audioTrack} \ {NoTrack}) ELSE trs

\* After unmount no listener or suspended call can set state of the instance
Detach(rms) == [r \in RoomIds |-> [rms[r] EXCEPT !.live = FALSE]]
Orphan(cs) == [i \in DOMAIN cs |-> [cs[i] EXCEPT !.alive = FALSE]]

\* The effect runs again because a dependency changed (here the roomName prop
\* of the mounted View): the cleanup of the previous run, with the `room` its
\* closure captured, then connectToRoom; the new cleanup captures the `room`
\* of this render.
RerunEffect(rms) ==
  IF ~Truthy(token) \/ ~Truthy(serverUrl)
    THEN /\ rooms' = rms
         /\ effectRan' = FALSE
         /\ UNCHANGED <<room, connectionState, cleanupRoom>>
    ELSE /\ ConnectToRoom(rms)
         /\ cleanupRoom' = room

\* Objects nothing refers to any more are forgotten: a stopped, unpublished
\* track that no ref and no suspended call holds, and a disconnected Room that
\* neither `room`, the cleanup closure nor a suspended call holds.
TidyTracks(trs, cs, vt, at) ==
  [t \in TrackIds |->
     IF /\ trs[t].stopped /\ trs[t].pub = NoRoom /\ t \notin {vt, at}
        /\ \A i \in DOMAIN cs : cs[i].trk # t
       THEN EmptyTrack ELSE trs[t]]
TidyRooms(rms, cs, rm, cr) ==
  [r \in RoomIds |->
     IF /\ rms[r].state = "disconnected" /\ r \notin {rm, cr}
        /\ \A i \in DOMAIN cs : cs[i].room # r
       THEN EmptyRoom ELSE rms[r]]

\* the suspended calls without the i-th
Remove(cs, i) == [j \in 1..(Len(cs) - 1) |-> IF j < i THEN cs[j] ELSE cs[j + 1]]

\* --------------------------------------------------------------- App.tsx
\* handleDisconnect without setToken('')
HandleDisconnectKeepsToken ==
  /\ mode' = "home"
  /\ token' = token

\* handleDisconnect
HandleDisconnect ==
  /\ mode' = "home"
  /\ token' = ""

SetRoomName(v) ==
  /\ mode = "home" /\ alertMsg = NoAlert /\ v # roomName
  /\ roomName' = v
  /\ onDisconnectCalls' = 0
  /\ UNCHANGED <<mode, userName, serverUrl, token, isLoading, req, alertMsg, viewVars, sdkVars>>

SetUserName(v) ==
  /\ mode = "home" /\ alertMsg = NoAlert /\ v # userName
  /\ userName' = v
  /\ onDisconnectCalls' = 0
  /\ UNCHANGED <<mode, roomName, serverUrl, token, isLoading, req, alertMsg, viewVars, sdkVars>>

SetServerUrl(v) ==
  /\ mode = "home" /\ alertMsg = NoAlert /\ v # serverUrl
  /\ serverUrl' = v
  /\ onDisconnectCalls' = 0
  /\ UNCHANGED <<mode, roomName, userName, token, isLoading, req, alertMsg, viewVars, sdkVars>>

\* disabled={!roomName || !userName || !serverUrl || isLoading}
ButtonEnabled == Truthy(roomName) /\ Truthy(userName) /\ Truthy(serverUrl) /\ ~isLoading

\* if (!roomName || !userName) { alert(...); return }
InputsMissing == ~Truthy(roomName) \/ ~Truthy(userName)

\* handleStartBroadcast / handleJoinViewer up to the await of fetch
RequestCredential(kind) ==
  /\ mode = "home" /\ alertMsg = NoAlert /\ ButtonEnabled
  /\ IF InputsMissing
       THEN /\ alertMsg' = ValidationAlert
            /\ UNCHANGED <<req, isLoading>>
       ELSE /\ req' = [kind |-> kind, identity |-> userName, room |-> roomName]
            /\ isLoading' = TRUE
            /\ UNCHANGED alertMsg
  /\ onDisconnectCalls' = 0
  /\ UNCHANGED <<mode, roomName, userName, serverUrl, token, viewVars, sdkVars>>

HandleStartBroadcast ==
  /\ FreeRooms # {}
  /\ RequestCredential("broadcaster")

HandleJoinViewer == RequestCredential("viewer")

Responses ==
  {[status |-> "network", body |-> "none", token |-> Undefined, error |-> Undefined]}
  \cup {[status |-> "ok", body |-> "json", token |-> t, error |-> Undefined] :
          t \in Tokens \cup {Undefined}}
  \cup {[status |-> s, body |-> "badjson", token |-> Undefined, error |-> Undefined] :
          s \in {"ok", "notok"}}
  \cup {[status |-> "notok", body |-> "json", token |-> Undefined, error |-> e] :
          e \in ErrorTexts \cup {Undefined}}

\* GenerateToken returning the parsed body's missing field instead of data.token
GenerateTokenDropsToken(resp) ==
  IF resp.status = "network" THEN [ok |-> FALSE, value |-> "Failed to fetch"]
  ELSE IF resp.body = "badjson" THEN [ok |-> FALSE, value |-> "Unexpected token"]
  ELSE IF resp.status = "ok" THEN [ok |-> TRUE, value |-> Undefined]
  ELSE [ok |-> FALSE, value |-> ErrorOr(resp.error)]

\* generateToken after the fetch settled: the value returned or the Error thrown
GenerateToken(resp) ==
  IF resp.status = "network" THEN [ok |-> FALSE, value |-> "Failed to fetch"]
  ELSE IF resp.body = "badjson" THEN [ok |-> FALSE, value |-> "Unexpected token"]
  ELSE IF resp.status = "ok" THEN [ok |-> TRUE, value |-> resp.token]
  ELSE [ok |-> FALSE, value |-> ErrorOr(resp.error)]

FailurePrefix(kind) ==
  IF kind = "broadcaster" THEN "Failed to generate broadcaster token: "
  ELSE "Failed to generate viewer token: "

\* The fetch settles: the rest of generateToken and of the handler, and, on
\* success, the render of the selected View and the first run of its effect.
CredentialResponse(resp) ==
  /\ req # NoReq /\ alertMsg = NoAlert
  /\ LET res == GenerateToken(resp) IN
     IF res.ok
       THEN /\ token' = res.value
            /\ mode' = req.kind
            /\ UNCHANGED alertMsg
            /\ IF req.kind = "broadcaster"
                 THEN MountBroadcaster(res.value, serverUrl)
                 ELSE UNCHANGED <<viewVars, rooms>>
       ELSE /\ alertMsg' = <<FailurePrefix(req.kind), res.value>>
            /\ UNCHANGED <<mode, token, viewVars, rooms>>
  /\ isLoading' = FALSE
  /\ req' = NoReq
  /\ onDisconnectCalls' = 0
  /\ UNCHANGED <<roomName, userName, serverUrl, tracks, calls>>

\* The user closes the alert() dialog
DismissAlert ==
  /\ alertMsg # NoAlert
  /\ alertMsg' = NoAlert
  /\ onDisconnectCalls' = 0
  /\ UNCHANGED <<mode, roomName, userName, serverUrl, token, isLoading, req, viewVars, sdkVars>>

\* The Viewer View reports its disconnection through the onDisconnect prop
ViewerDisconnected ==
  /\ mode = "viewer" /\ alertMsg = NoAlert
  /\ HandleDisconnect
  /\ onDisconnectCalls' = 1
  /\ UNCHANGED <<roomName, userName, serverUrl, isLoading, req, alertMsg, viewVars, sdkVars>>

AppNext ==
  \/ \E v \in Names : SetRoomName(v)
  \/ \E v \in Users : SetUserName(v)
  \/ \E v \in Urls : SetServerUrl(v)
  \/ HandleStartBroadcast
  \/ HandleJoinViewer
  \/ \E resp \in Responses : CredentialResponse(resp)
  \/ DismissAlert
  \/ ViewerDisconnected

\* ------------------------------------------------ transport (Room) events
appRest == <<roomName, userName, serverUrl, isLoading, req, alertMsg>>

\* The Room leaves the session: it unpublishes and stops its published tracks
SdkRelease(trs, r) ==
  [t \in TrackIds |->
     IF trs[t].pub = r THEN [trs[t] EXCEPT !.stopped = TRUE, !.pub = NoRoom] ELSE trs[t]]

\* RoomEvent.Disconnected listener of a Room: setConnected(false),
\* setConnectionState(Disconnected), setIsStreaming(false), onDisconnect?.().
\* onDisconnect is App's handleDisconnect; when it leaves the broadcaster
\* mode, App renders another screen and the mounted View is unmounted: its
\* cleanup runs and its state is dropped.
OnDisconnected(r, rms, trs) ==
  /\ HandleDisconnect
  /\ onDisconnectCalls' = 1
  /\ IF mode = "broadcaster" /\ mode' # "broadcaster"
       THEN /\ ViewGone
            /\ calls' = Orphan(calls)
            /\ rooms' = TidyRooms(Detach(CleanupRooms(rms)), calls, NoRoom, NoRoom)
            /\ tracks' = TidyTracks(CleanupTracks(trs), calls, NoTrack, NoTrack)
       ELSE /\ IF rms[r].live
                 THEN connected' = FALSE /\ connectionState' = "disconnected"
                      /\ isStreaming' = FALSE
                 ELSE UNCHANGED <<connected, connectionState, isStreaming>>
            /\ UNCHANGED <<room, chatMessages, chatInput, viewerCount, videoEnabled, audioEnabled, videoTrack,
                           audioTrack, cleanupRoom, effectRan, calls>>
            /\ rooms' = TidyRooms(rms, calls, room, cleanupRoom)
            /\ tracks' = TidyTracks(trs, calls, videoTrack, audioTrack)

\* The Room becomes disconnected and emits ConnectionStateChanged, Disconnected
RoomDisconnects(r) ==
  OnDisconnected(r, [rooms EXCEPT ![r].state = "disconnected", ![r].closing = FALSE, ![r].peers = 0],
                 SdkRelease(tracks, r))

\* RoomEvent.Connected listener (after ConnectionStateChanged(connected))
OnConnected(r) ==
  IF rooms[r].live
    THEN connected' = TRUE /\ connectionState' = "connected"
    ELSE UNCHANGED <<connected, connectionState>>

\* RoomEvent.ConnectionStateChanged listener
OnConnectionStateChanged(r, state) ==
  IF rooms[r].live
    THEN connectionState' = state
    ELSE UNCHANGED connectionState

\* ConnectCatch without the setConnectionState call
ConnectCatchNoReset(r) == UNCHANGED connectionState

\* catch of connectToRoom: setConnectionState(ConnectionState.Disconnected)
ConnectCatch(r) ==
  IF rooms[r].live
    THEN connectionState' = "disconnected"
    ELSE UNCHANGED connectionState

\* newRoom.connect resolves; n participants are already in the room
TransportConnected(r, n) ==
  /\ alertMsg = NoAlert /\ rooms[r].state = "connecting" /\ ~rooms[r].closing
  /\ rooms' = [rooms EXCEPT ![r].state = "connected", ![r].peers = n]
  /\ OnConnected(r)
  /\ onDisconnectCalls' = 0
  /\ UNCHANGED <<appVars, room, isStreaming, chatMessages, chatInput, viewerCount, videoEnabled, audioEnabled,
                 videoTrack, audioTrack, cleanupRoom, effectRan, tracks, calls>>

\* newRoom.connect rejects: the catch of connectToRoom. The Room may have
\* emitted Disconnected before the rejection reaches the catch.
ConnectFailed(r, emits) ==
  /\ alertMsg = NoAlert /\ rooms[r].state = "connecting"
  /\ IF emits
       THEN RoomDisconnects(r) /\ UNCHANGED appRest
       ELSE /\ rooms' = TidyRooms([rooms EXCEPT ![r].state = "disconnected", ![r].closing = FALSE, ![r].peers = 0],
                                  calls, room, cleanupRoom)
            /\ ConnectCatch(r)
            /\ onDisconnectCalls' = 0
            /\ UNCHANGED <<appVars, room, connected, isStreaming, chatMessages, chatInput, viewerCount, videoEnabled,
                           audioEnabled, videoTrack, audioTrack, cleanupRoom, effectRan,
                           tracks, calls>>

TransportReconnecting(r) ==
  /\ alertMsg = NoAlert /\ rooms[r].state = "connected"
  /\ rooms' = [rooms EXCEPT ![r].state = "reconnecting"]
  /\ OnConnectionStateChanged(r, "reconnecting")
  /\ onDisconnectCalls' = 0
  /\ UNCHANGED <<appVars, room, connected, isStreaming, chatMessages, chatInput, viewerCount, videoEnabled,
                 audioEnabled, videoTrack, audioTrack, cleanupRoom, effectRan, tracks, calls>>

TransportReconnected(r) ==
  /\ alertMsg = NoAlert /\ rooms[r].state = "reconnecting" /\ ~rooms[r].closing
  /\ rooms' = [rooms EXCEPT ![r].state = "connected"]
  /\ OnConnectionStateChanged(r, "connected")
  /\ onDisconnectCalls' = 0
  /\ UNCHANGED <<appVars, room, connected, isStreaming, chatMessages, chatInput, viewerCount, videoEnabled,
                 audioEnabled, videoTrack, audioTrack, cleanupRoom, effectRan, tracks, calls>>

\* The session ends: the server or the network drops it, or a requested
\* close completes
TransportDisconnected(r) ==
  /\ alertMsg = NoAlert
  /\ \/ rooms[r].state \in {"connected", "reconnecting"}
     \/ rooms[r].state = "connecting" /\ rooms[r].closing
  /\ RoomDisconnects(r)
  /\ UNCHANGED appRest

\* RoomEvent.ParticipantConnected listener: setViewerCount(prev => prev + 1)
ParticipantConnected(r) ==
  /\ alertMsg = NoAlert /\ rooms[r].state = "connected" /\ rooms[r].peers < MaxPeers
  /\ rooms' = [rooms EXCEPT ![r].peers = @ + 1]
  /\ IF rooms[r].live
       THEN viewerCount' = viewerCount + 1
       ELSE UNCHANGED viewerCount
  /\ onDisconnectCalls' = 0
  /\ UNCHANGED <<appVars, room, connected, isStreaming, chatMessages, chatInput,
                 connectionState, videoEnabled, audioEnabled, videoTrack, audioTrack,
                 cleanupRoom, effectRan, tracks, calls>>

\* RoomEvent.ParticipantDisconnected listener:
\* setViewerCount(prev => Math.max(0, prev - 1))
ParticipantDisconnected(r) ==
  /\ alertMsg = NoAlert /\ rooms[r].state = "connected" /\ rooms[r].peers > 0
  /\ rooms' = [rooms EXCEPT ![r].peers = @ - 1]
  /\ IF rooms[r].live
       THEN viewerCount' = IF viewerCount - 1 > 0 THEN viewerCount - 1 ELSE 0
       ELSE UNCHANGED viewerCount
  /\ onDisconnectCalls' = 0
  /\ UNCHANGED <<appVars, room, connected, isStreaming, chatMessages, chatInput,
                 connectionState, videoEnabled, audioEnabled, videoTrack, audioTrack,
                 cleanupRoom, effectRan, tracks, calls>>

Payloads ==
  {[json |-> FALSE, type |-> "none", data |-> FALSE, username |-> Undefined, message |-> Undefined],
   [json |-> TRUE, type |-> "none", data |-> FALSE, username |-> Undefined, message |-> Undefined],
   [json |-> TRUE, type |-> "reaction", data |-> TRUE, username |-> "Bob", message |-> "hi"],
   [json |-> TRUE, type |-> "chat_message", data |-> FALSE, username |-> Undefined, message |-> Undefined],
   [json |-> TRUE, type |-> "chat_message", data |-> TRUE, username |-> "Bob", message |-> Undefined],
   [json |-> TRUE, type |-> "chat_message", data |-> TRUE, username |-> Undefined, message |-> "hi"],
   [json |-> TRUE, type |-> "chat_message", data |-> TRUE, username |-> "Bob", message |-> "hi"]}

\* The entries the DataReceived listener appends for a payload: JSON.parse
\* throws on malformed text and message.data.user throws without data (both
\* caught); a missing username becomes 'Unknown', a missing message stays
\* undefined
Received(p) ==
  IF p.json /\ p.type = "chat_message" /\ p.data
    THEN <<[user |-> IF Truthy(p.username) THEN p.username ELSE "Unknown",
            message |-> p.message]>>
    ELSE <<>>

\* RoomEvent.DataReceived listener
DataReceived(r, p) ==
  /\ alertMsg = NoAlert /\ rooms[r].state = "connected"
  /\ Len(chatMessages) + Len(Received(p)) <= MaxChat
  /\ IF rooms[r].live
       THEN chatMessages' = chatMessages \o Received(p)
       ELSE UNCHANGED chatMessages
  /\ onDisconnectCalls' = 0
  /\ UNCHANGED <<appVars, room, connected, isStreaming, chatInput, viewerCount,
                 connectionState, videoEnabled, audioEnabled, videoTrack, audioTrack,
                 cleanupRoom, effectRan, sdkVars>>

\* ------------------------------------------- LiveStreamBroadcaster controls
\* disconnect
Disconnect ==
  /\ mode = "broadcaster" /\ alertMsg = NoAlert
  /\ rooms' = RequestClose(rooms, room)
  /\ onDisconnectCalls' = 0
  /\ UNCHANGED <<appVars, viewVars, tracks, calls>>

\* setIsStreaming by an invocation: nothing when its component was unmounted
SetIsStreaming(c, v) == IF c.alive THEN isStreaming' = v ELSE UNCHANGED isStreaming

\* what an invocation leaves behind: its refs, the transport objects, the
\* other suspended calls
Settle(rms, trs, cs, vt, at) ==
  /\ videoTrack' = vt
  /\ audioTrack' = at
  /\ calls' = cs
  /\ tracks' = TidyTracks(trs, cs, vt, at)
  /\ rooms' = TidyRooms(rms, cs, room, cleanupRoom)

\* FirstKind with the video toggle ignored
FirstKindVideo(v, a) == "video"

\* The first track startStreaming creates under the toggles (v, a)
FirstKind(v, a) == IF v THEN "video" ELSE IF a THEN "audio" ELSE "none"

\* Start Stream button: disabled={!connected}
StartDisabled == ~connected

\* A click on Start Stream (rendered when !isStreaming): nothing on the
\* disabled button, else startStreaming up to its first await
StartStreaming ==
  /\ mode = "broadcaster" /\ alertMsg = NoAlert
  /\ ~isStreaming
  /\ Len(calls) < MaxCalls
  /\ IF StartDisabled \/ room = NoRoom \/ ~connected
       THEN UNCHANGED <<isStreaming, calls>>
       ELSE IF FirstKind(videoEnabled, audioEnabled) # "none"
         THEN /\ calls' = Append(calls,
                   [pc |-> "acquire", kind |-> FirstKind(videoEnabled, audioEnabled),
                    room |-> room, audio |-> audioEnabled, trk |-> NoTrack, was |-> FALSE,
                    text |-> "", alive |-> TRUE])
              /\ UNCHANGED isStreaming
         ELSE /\ isStreaming' = TRUE
              /\ UNCHANGED calls
  /\ onDisconnectCalls' = 0
  /\ UNCHANGED <<appVars, room, connected, chatMessages, chatInput, viewerCount, connectionState, videoEnabled,
                 audioEnabled, videoTrack, audioTrack, cleanupRoom, effectRan, rooms, tracks>>

\* createLocalVideoTrack / createLocalAudioTrack settles; on success the ref
\* is assigned and publishTrack is called with it
AcquireTrack(i, ok) ==
  /\ alertMsg = NoAlert /\ i \in DOMAIN calls /\ calls[i].pc = "acquire"
  /\ LET c == calls[i] IN
     IF ok
       THEN /\ FreeTracks # {}
            /\ LET t == Min(FreeTracks) IN
               Settle(rooms,
                      [tracks EXCEPT ![t] = [kind |-> c.kind, stopped |-> FALSE, pub |-> NoRoom, muted |-> FALSE]],
                      [calls EXCEPT ![i].pc = "publish", ![i].trk = t],
                      IF c.alive /\ c.kind = "video" THEN t ELSE videoTrack,
                      IF c.alive /\ c.kind = "audio" THEN t ELSE audioTrack)
            /\ UNCHANGED alertMsg
       ELSE /\ alertMsg' = StreamAlert
            /\ Settle(rooms, tracks, Remove(calls, i), videoTrack, audioTrack)
  /\ onDisconnectCalls' = 0
  /\ UNCHANGED <<mode, roomName, userName, serverUrl, token, isLoading, req,
                 room, connected, isStreaming, chatMessages, chatInput, viewerCount, connectionState, videoEnabled,
                 audioEnabled, cleanupRoom, effectRan>>

\* room.localParticipant.publishTrack settles; then the audio part of
\* startStreaming, or setIsStreaming(true)
PublishTrack(i, ok) ==
  /\ alertMsg = NoAlert /\ i \in DOMAIN calls /\ calls[i].pc = "publish"
  /\ LET c == calls[i]
         published == [tracks EXCEPT ![c.trk].pub = c.room]
     IN
     IF ok
       THEN /\ rooms[c.room].state = "connected"
            /\ IF c.kind = "video" /\ c.audio
                 THEN /\ Settle(rooms, published,
                                [calls EXCEPT ![i].pc = "acquire", ![i].kind = "audio",
                                              ![i].trk = NoTrack],
                                videoTrack, audioTrack)
                      /\ UNCHANGED isStreaming
                 ELSE /\ Settle(rooms, published, Remove(calls, i), videoTrack, audioTrack)
                      /\ SetIsStreaming(c, TRUE)
            /\ UNCHANGED alertMsg
       ELSE /\ alertMsg' = StreamAlert
            /\ Settle(rooms, tracks, Remove(calls, i), videoTrack, audioTrack)
            /\ UNCHANGED isStreaming
  /\ onDisconnectCalls' = 0
  /\ UNCHANGED <<mode, roomName, userName, serverUrl, token, isLoading, req,
                 room, connected, chatMessages, chatInput, viewerCount, connectionState, videoEnabled,
                 audioEnabled, cleanupRoom, effectRan>>

\* stopStreaming up to its first await (Stop Stream button: shown when isStreaming)
StopStreaming ==
  /\ mode = "broadcaster" /\ alertMsg = NoAlert
  /\ isStreaming
  /\ Len(calls) < MaxCalls
  /\ IF room = NoRoom
       THEN UNCHANGED <<isStreaming, calls>>
       ELSE IF videoTrack # NoTrack \/ audioTrack # NoTrack
         THEN /\ calls' = Append(calls,
                   [pc |-> "unpublish", kind |-> IF videoTrack # NoTrack THEN "video" ELSE "audio",
                    room |-> room, audio |-> FALSE,
                    trk |-> IF videoTrack # NoTrack THEN videoTrack ELSE audioTrack,
                    was |-> FALSE, text |-> "", alive |-> TRUE])
              /\ UNCHANGED isStreaming
         ELSE /\ isStreaming' = FALSE
              /\ UNCHANGED calls
  /\ onDisconnectCalls' = 0
  /\ UNCHANGED <<appVars, room, connected, chatMessages, chatInput, viewerCount, connectionState, videoEnabled,
                 audioEnabled, videoTrack, audioTrack, cleanupRoom, effectRan, rooms, tracks>>

\* room.localParticipant.unpublishTrack settles; then ref.stop(), ref = null,
\* and the audio part of stopStreaming, or setIsStreaming(false)
UnpublishTrack(i, ok) ==
  /\ alertMsg = NoAlert /\ i \in DOMAIN calls /\ calls[i].pc = "unpublish"
  /\ LET c == calls[i]
         ref == IF ~c.alive THEN c.trk ELSE IF c.kind = "video" THEN videoTrack ELSE audioTrack
         unpublished == [tracks EXCEPT ![c.trk].pub = NoRoom, ![c.trk].stopped = TRUE]
     IN
     IF ok /\ ref # NoTrack
       THEN IF c.alive /\ c.kind = "video" /\ audioTrack # NoTrack
              THEN /\ Settle(rooms, StopTracks(unpublished, {ref}),
                             [calls EXCEPT ![i].kind = "audio", ![i].trk = audioTrack],
                             NoTrack, audioTrack)
                   /\ UNCHANGED isStreaming
              ELSE /\ Settle(rooms, StopTracks(unpublished, {ref}), Remove(calls, i),
                             IF c.alive /\ c.kind = "video" THEN NoTrack ELSE videoTrack,
                             IF c.alive /\ c.kind = "audio" THEN NoTrack ELSE audioTrack)
                   /\ SetIsStreaming(c, FALSE)
       ELSE /\ Settle(rooms, IF ok THEN unpublished ELSE tracks, Remove(calls, i),
                      videoTrack, audioTrack)
            /\ UNCHANGED isStreaming
  /\ onDisconnectCalls' = 0
  /\ UNCHANGED <<appVars, room, connected, chatMessages, chatInput, viewerCount, connectionState, videoEnabled,
                 audioEnabled, cleanupRoom, effectRan>>

\* SetMuted without the change of the track
SetMutedNot(trs, t, m) == trs

\* track.mute() / track.unmute(): the track is muted in place
SetMuted(trs, t, m) == [trs EXCEPT ![t].muted = m]

\* A click on a toggle button (disabled={!isStreaming}): toggleVideo /
\* toggleAudio up to the await of mute() / unmute()
Toggle(kind, ref, enabled) ==
  /\ mode = "broadcaster" /\ alertMsg = NoAlert
  /\ Len(calls) < MaxCalls
  /\ IF ~isStreaming \/ ref = NoTrack
       THEN UNCHANGED calls
       ELSE calls' = Append(calls,
              [pc |-> "mute", kind |-> kind, room |-> room, audio |-> FALSE, trk |-> ref,
               was |-> enabled, text |-> "", alive |-> TRUE])
  /\ onDisconnectCalls' = 0
  /\ UNCHANGED <<appVars, viewVars, rooms, tracks>>

ToggleVideo == Toggle("video", videoTrack, videoEnabled)
ToggleAudio == Toggle("audio", audioTrack, audioEnabled)

\* mute() / unmute() settles; then setVideoEnabled(!videoEnabled) /
\* setAudioEnabled(!audioEnabled) with the value the invocation saw
MuteSettles(i) ==
  /\ alertMsg = NoAlert /\ i \in DOMAIN calls /\ calls[i].pc = "mute"
  /\ LET c == calls[i] IN
     /\ Settle(rooms, SetMuted(tracks, c.trk, c.was), Remove(calls, i), videoTrack, audioTrack)
     /\ IF c.alive /\ c.kind = "video"
          THEN videoEnabled' = ~c.was
          ELSE UNCHANGED videoEnabled
     /\ IF c.alive /\ c.kind = "audio"
          THEN audioEnabled' = ~c.was
          ELSE UNCHANGED audioEnabled
  /\ onDisconnectCalls' = 0
  /\ UNCHANGED <<appVars, room, connected, isStreaming, chatMessages, chatInput, viewerCount,
                 connectionState, cleanupRoom, effectRan>>

ChatTexts == {"", " ", "hi"}

\* The chat input (disabled={!connected}): setChatInput(e.target.value)
SetChatInput(v) ==
  /\ mode = "broadcaster" /\ alertMsg = NoAlert /\ connected /\ v # chatInput
  /\ chatInput' = v
  /\ onDisconnectCalls' = 0
  /\ UNCHANGED <<appVars, room, connected, isStreaming, chatMessages, viewerCount,
                 connectionState, videoEnabled, audioEnabled, videoTrack, audioTrack,
                 cleanupRoom, effectRan, sdkVars>>

\* Enter in the chat input or a click on Send: sendChatMessage up to the
\* await of publishData
SendChatMessage ==
  /\ mode = "broadcaster" /\ alertMsg = NoAlert /\ connected
  /\ Len(calls) < MaxCalls
  /\ IF room = NoRoom \/ Trim(chatInput) = ""
       THEN UNCHANGED calls
       ELSE calls' = Append(calls,
              [pc |-> "send", kind |-> "none", room |-> room, audio |-> FALSE,
               trk |-> NoTrack, was |-> FALSE, text |-> Trim(chatInput), alive |-> TRUE])
  /\ onDisconnectCalls' = 0
  /\ UNCHANGED <<appVars, viewVars, rooms, tracks>>

\* room.localParticipant.publishData settles; on success the message the
\* invocation saw is appended and the input is cleared
PublishData(i, ok) ==
  /\ alertMsg = NoAlert /\ i \in DOMAIN calls /\ calls[i].pc = "send"
  /\ LET c == calls[i] IN
     /\ IF ok
          THEN /\ rooms[c.room].state = "connected"
               /\ Len(chatMessages) < MaxChat
               /\ IF c.alive
                    THEN /\ chatMessages' = Append(chatMessages,
                                                   [user |-> userName, message |-> c.text])
                         /\ chatInput' = ""
                    ELSE UNCHANGED <<chatMessages, chatInput>>
          ELSE UNCHANGED <<chatMessages, chatInput>>
     /\ Settle(rooms, tracks, Remove(calls, i), videoTrack, audioTrack)
  /\ onDisconnectCalls' = 0
  /\ UNCHANGED <<appVars, room, connected, isStreaming, viewerCount, connectionState,
                 videoEnabled, audioEnabled, cleanupRoom, effectRan>>

\* The parent renders the mounted View with another roomName prop
PropsChange(v) ==
  /\ mode = "broadcaster" /\ alertMsg = NoAlert /\ v # roomName
  /\ FreeRooms # {}
  /\ roomName' = v
  /\ RerunEffect(CleanupRooms(rooms))
  /\ tracks' = CleanupTracks(tracks)
  /\ onDisconnectCalls' = 0
  /\ UNCHANGED <<mode, userName, serverUrl, token, isLoading, req, alertMsg, connected,
                 isStreaming, chatMessages, chatInput, viewerCount, videoEnabled, audioEnabled, videoTrack,
                 audioTrack, calls>>

ViewNext ==
  \/ \E r \in RoomIds, n \in 0..MaxPeers : TransportConnected(r, n)
  \/ \E r \in RoomIds : ParticipantConnected(r)
  \/ \E r \in RoomIds : ParticipantDisconnected(r)
  \/ \E v \in ChatTexts : SetChatInput(v)
  \/ SendChatMessage
  \/ \E i \in CallIds, ok \in BOOLEAN : PublishData(i, ok)
  \/ \E i \in CallIds : MuteSettles(i)
  \/ \E r \in RoomIds, emits \in BOOLEAN : ConnectFailed(r, emits)
  \/ \E r \in RoomIds : TransportReconnecting(r)
  \/ \E r \in RoomIds : TransportReconnected(r)
  \/ \E r \in RoomIds : TransportDisconnected(r)
  \/ \E r \in RoomIds, p \in Payloads : DataReceived(r, p)
  \/ Disconnect
  \/ StartStreaming
  \/ \E i \in CallIds, ok \in BOOLEAN : AcquireTrack(i, ok)
  \/ \E i \in CallIds, ok \in BOOLEAN : PublishTrack(i, ok)
  \/ StopStreaming
  \/ \E i \in CallIds, ok \in BOOLEAN : UnpublishTrack(i, ok)
  \/ ToggleVideo
  \/ ToggleAudio

Next == AppNext \/ ViewNext

\* The whole client: every user action and every transport event
Spec == Init /\ [][Next]_vars

\* The Session Controller with the session lifecycle of the View it mounts:
\* the user does not stream
SessionNext ==
  \/ AppNext
  \/ \E r \in RoomIds : TransportConnected(r, 0)
  \/ \E r \in RoomIds, emits \in BOOLEAN : ConnectFailed(r, emits)
  \/ \E r \in RoomIds : TransportReconnecting(r)
  \/ \E r \in RoomIds : TransportReconnected(r)
  \/ \E r \in RoomIds : TransportDisconnected(r)
  \/ \E r \in RoomIds, p \in Payloads : DataReceived(r, p)
  \/ Disconnect

SessionSpec == Init /\ [][SessionNext]_vars

\* The home screen with both names typed in
InitTyped ==
  /\ mode = "home" /\ roomName = "demo" /\ userName = "Alice" /\ serverUrl = DefaultUrl
  /\ token = "" /\ isLoading = FALSE /\ req = NoReq /\ alertMsg = NoAlert
  /\ ViewInitial
  /\ rooms = [r \in RoomIds |-> EmptyRoom]
  /\ tracks = [t \in TrackIds |-> EmptyTrack]
  /\ calls = <<>>
  /\ onDisconnectCalls = 0

\* Broadcasting sessions of a user who leaves the typed names alone
StreamNext ==
  \/ HandleStartBroadcast
  \/ \E resp \in Responses : CredentialResponse(resp)
  \/ DismissAlert
  \/ \E r \in RoomIds : TransportConnected(r, 0)
  \/ \E r \in RoomIds, emits \in BOOLEAN : ConnectFailed(r, emits)
  \/ \E r \in RoomIds : TransportDisconnected(r)
  \/ Disconnect
  \/ StartStreaming
  \/ \E i \in CallIds, ok \in BOOLEAN : AcquireTrack(i, ok)
  \/ \E i \in CallIds, ok \in BOOLEAN : PublishTrack(i, ok)
  \/ StopStreaming
  \/ \E i \in CallIds, ok \in BOOLEAN : UnpublishTrack(i, ok)
  \/ ToggleVideo
  \/ ToggleAudio
  \/ \E i \in CallIds : MuteSettles(i)

StreamSpec == InitTyped /\ [][StreamNext]_vars

\* A user who lets a streaming operation settle before starting the next
SerialStart == calls = <<>> /\ StartStreaming
SerialStop == calls = <<>> /\ StopStreaming
SerialToggleVideo == calls = <<>> /\ ToggleVideo
SerialToggleAudio == calls = <<>> /\ ToggleAudio

\* Broadcasting sessions with chat, one streaming operation at a time
SerialNext ==
  \/ HandleStartBroadcast
  \/ \E resp \in Responses : CredentialResponse(resp)
  \/ DismissAlert
  \/ \E r \in RoomIds : TransportConnected(r, 0)
  \/ \E r \in RoomIds, emits \in BOOLEAN : ConnectFailed(r, emits)
  \/ \E r \in RoomIds : TransportReconnecting(r)
  \/ \E r \in RoomIds : TransportReconnected(r)
  \/ \E r \in RoomIds : TransportDisconnected(r)
  \/ \E r \in RoomIds, p \in Payloads : DataReceived(r, p)
  \/ Disconnect
  \/ SerialStart
  \/ \E i \in CallIds, ok \in BOOLEAN : AcquireTrack(i, ok)
  \/ \E i \in CallIds, ok \in BOOLEAN : PublishTrack(i, ok)
  \/ SerialStop
  \/ \E i \in CallIds, ok \in BOOLEAN : UnpublishTrack(i, ok)
  \/ SerialToggleVideo
  \/ SerialToggleAudio
  \/ \E i \in CallIds : MuteSettles(i)

SerialSpec == InitTyped /\ [][SerialNext]_vars

\* The Broadcaster View under a parent that may change its roomName prop
\* during a session
ViewSpecNext ==
  \/ HandleStartBroadcast
  \/ \E resp \in Responses : CredentialResponse(resp)
  \/ DismissAlert
  \/ \E v \in Names : PropsChange(v)
  \/ \E r \in RoomIds : TransportConnected(r, 0)
  \/ \E r \in RoomIds, emits \in BOOLEAN : ConnectFailed(r, emits)
  \/ \E r \in RoomIds : TransportReconnecting(r)
  \/ \E r \in RoomIds : TransportReconnected(r)
  \/ \E r \in RoomIds : TransportDisconnected(r)
  \/ \E r \in RoomIds, p \in Payloads : DataReceived(r, p)
  \/ Disconnect

ViewSpec == InitTyped /\ [][ViewSpecNext]_vars

\* A session in a room with other participants, and its chat
ChatNext ==
  \/ HandleStartBroadcast
  \/ \E resp \in Responses : CredentialResponse(resp)
  \/ DismissAlert
  \/ \E r \in RoomIds, n \in 0..MaxPeers : TransportConnected(r, n)
  \/ \E r \in RoomIds, emits \in BOOLEAN : ConnectFailed(r, emits)
  \/ \E r \in RoomIds : TransportDisconnected(r)
  \/ \E r \in RoomIds : ParticipantConnected(r)
  \/ \E r \in RoomIds : ParticipantDisconnected(r)
  \/ \E r \in RoomIds, p \in Payloads : DataReceived(r, p)
  \/ \E v \in ChatTexts : SetChatInput(v)
  \/ SendChatMessage
  \/ \E i \in CallIds, ok \in BOOLEAN : PublishData(i, ok)
  \/ Disconnect

ChatSpec == InitTyped /\ [][ChatNext]_vars

\* SessionSpec with a user who keeps pressing Disconnect until it has an
\* effect and a transport that delivers the Disconnected event of a Room it
\* closes or drops
ExitSpec ==
  /\ Init /\ [][SessionNext]_vars
  /\ WF_vars(Disconnect)
  /\ WF_vars(\E r \in RoomIds : TransportDisconnected(r))

\* ------------------------------------------------------------------ claims
Held(t) == tracks[t].kind # "none" /\ ~tracks[t].stopped
SuccessResponses == {resp \in Responses : resp.status = "ok" /\ resp.body = "json"}
FailureResponses == Responses \ SuccessResponses

\* C1: while a credential request is in flight, neither the room name nor the
\* display name it was issued for is empty or whitespace-only.
C1_NoRequestForBlankNames ==
  req # NoReq => Trim(req.room) # "" /\ Trim(req.identity) # ""

\* C2: a success response {token: t} puts the controller in the requested
\* mode with token = t, and mode leaves home only in the step in which a
\* success response arrives.
C2_SuccessEntersRequestedMode ==
  [][/\ \A resp \in SuccessResponses :
          (CredentialResponse(resp) /\ Truthy(resp.token))
            => (mode' = req.kind /\ token' = resp.token)
     /\ (mode = "home" /\ mode' # "home")
          => \E resp \in SuccessResponses : CredentialResponse(resp)]_vars

C2_Witness == mode = "broadcaster" /\ token = "abc" /\ room # NoRoom

\* C3: a failed credential request (network error, unreadable body, non-200)
\* shows an alert, carrying the backend's error text when it gave one, and
\* leaves mode, token and the View state as they were.
C3_FailureReportedModeKept ==
  [][\A resp \in FailureResponses :
        CredentialResponse(resp)
          => /\ mode' = mode /\ token' = token
             /\ UNCHANGED viewVars
             /\ alertMsg' # NoAlert /\ alertMsg'[1] = FailurePrefix(req.kind)
             /\ (resp.status = "notok" /\ resp.body = "json" /\ Truthy(resp.error))
                  => alertMsg'[2] = resp.error]_vars

C3_Witness ==
  mode = "home" /\ token = "" /\
  alertMsg = <<"Failed to generate broadcaster token: ", "room full">>

\* C4: every onDisconnect notification leaves mode = home and token = '';
\* at home the token is always empty, and a View is entered only by the
\* credential request in flight, for the mode it asked.
C4_DisconnectDiscardsCredential ==
  [][/\ onDisconnectCalls' > 0 => (mode' = "home" /\ token' = "")
     /\ mode' = "home" => token' = ""
     /\ (mode = "home" /\ mode' # "home") => (req # NoReq /\ req.kind = mode')]_vars

C4_Witness == onDisconnectCalls = 1 /\ mode = "home" /\ token = ""

\* C5: connected becomes true only in the step in which the connect of the
\* current Room succeeds; when a connect fails the View is not connected,
\* shows disconnected, and no new Room is created.
C5_ConnectedOnlyOnSuccess ==
  [][/\ (~connected /\ connected')
          => /\ room # NoRoom /\ rooms[room].state = "connecting"
             /\ rooms'[room].state = "connected" /\ connectionState' = "connected"
     /\ \A r \in RoomIds :
          (rooms[r].state = "connecting" /\ rooms'[r].state \notin ActiveStates)
            => /\ ~connected' /\ connectionState' = "disconnected"
               /\ \A q \in RoomIds : rooms[q].state = "unused" => rooms'[q].state = "unused"]_vars

C5_Witness ==
  mode = "broadcaster" /\ room # NoRoom /\ rooms[room].state = "disconnected"
  /\ ~connected /\ connectionState = "disconnected"

\* C6: once the session is over and no streaming call is still running, no
\* acquired capture track is left un-stopped.
C6_NoCaptureAfterDisconnect ==
  (mode = "home" /\ calls = <<>>) => \A t \in TrackIds : ~Held(t)

\* C7: a mounted View has at most one Room that is connecting or connected.
C7_AtMostOneActiveRoom ==
  Cardinality({r \in RoomIds : rooms[r].live /\ rooms[r].state \in ActiveStates}) <= 1

C9_LateEventsIgnored ==
  [][\A r \in RoomIds :
        (r # room /\ rooms[r].state \in ActiveStates /\ rooms'[r].state # rooms[r].state)
          => /\ UNCHANGED <<mode, token, connected, connectionState, isStreaming, chatMessages>>
             /\ onDisconnectCalls' = 0]_vars

\* C10: when startStreaming has reported a failure, streaming has not
\* started and nothing else is running, no track is held or published.
C10_NoPartialPublish ==
  (alertMsg = StreamAlert /\ mode = "broadcaster" /\ ~isStreaming /\ calls = <<>>)
    => /\ videoTrack = NoTrack /\ audioTrack = NoTrack
       /\ \A t \in TrackIds : tracks[t].pub = NoRoom

C12_StopWithoutTracksIsNoOp ==
  [][(StopStreaming /\ videoTrack = NoTrack /\ audioTrack = NoTrack
        /\ \A t \in TrackIds : tracks[t].pub = NoRoom)
       => UNCHANGED <<viewVars, tracks, calls>>]_vars

\* C13: when mute() / unmute() of a toggle settles, the track the ref holds
\* is muted exactly when the toggle was on, nothing else of it changes, and
\* the toggle's flag is flipped while the other flag, the refs and
\* isStreaming stay; a toggle click without a track changes nothing.
C13_ToggleMutesInPlace ==
  [][/\ \A i \in DOMAIN calls :
          (MuteSettles(i) /\ calls[i].alive)
            => LET c == calls[i]
                   ref == IF c.kind = "video" THEN videoTrack ELSE audioTrack
                   on == IF c.kind = "video" THEN videoEnabled ELSE audioEnabled
               IN /\ ref = c.trk
                  /\ tracks' = [tracks EXCEPT ![ref].muted = on]
                  /\ IF c.kind = "video"
                       THEN videoEnabled' = ~videoEnabled /\ audioEnabled' = audioEnabled
                       ELSE audioEnabled' = ~audioEnabled /\ videoEnabled' = videoEnabled
                  /\ UNCHANGED <<videoTrack, audioTrack, isStreaming>>
     /\ ((ToggleVideo /\ videoTrack = NoTrack) \/ (ToggleAudio /\ audioTrack = NoTrack))
          => UNCHANGED <<videoEnabled, audioEnabled, videoTrack, audioTrack, isStreaming,
                         tracks, calls>>]_vars

C13_Witness ==
  /\ isStreaming /\ calls = <<>> /\ ~videoEnabled /\ audioEnabled
  /\ videoTrack # NoTrack /\ tracks[videoTrack].muted /\ ~tracks[videoTrack].stopped
  /\ audioTrack # NoTrack /\ ~tracks[audioTrack].muted

\* C14: in the step in which the user sends a non-blank chat message, the
\* message is appended to the local chat log, once.
C14_SentMessageAppendedAtOnce ==
  [][(SendChatMessage /\ room # NoRoom /\ Trim(chatInput) # "")
       => chatMessages' = Append(chatMessages,
                                 [user |-> userName, message |-> Trim(chatInput)])]_vars

WellFormed(p) == p.json /\ p.type = "chat_message" /\ p.data /\ p.message # Undefined

\* C15: a payload received by the current Room appends exactly one entry
\* when it is a well-formed chat_message, and otherwise leaves the chat log
\* and the rest of the View state unchanged.
C15_MalformedPayloadDropped ==
  [][\A p \in Payloads :
        (room # NoRoom /\ DataReceived(room, p))
          => IF WellFormed(p)
               THEN Len(chatMessages') = Len(chatMessages) + 1
               ELSE UNCHANGED viewVars]_vars

\* C16: a user in the Broadcaster View who presses Disconnect eventually is
\* back at home, provided the transport delivers its callbacks.
C16_ViewCanBeExited == (mode = "broadcaster") ~> (mode = "home")

\* C17: while no handler is running, a ref of the mounted View holds an
\* un-stopped track only if isStreaming is true.
C17_TrackHeldOnlyWhileStreaming ==
  (mode = "broadcaster" /\ calls = <<>>)
    => \A t \in {videoTrack, audioTrack} \ {NoTrack} : Held(t) => isStreaming

\* C18: while connected, the displayed viewer count is the number of other
\* participants in the room.
C18_ViewerCountIsRoomPopulation ==
  (mode = "broadcaster" /\ room # NoRoom /\ rooms[room].state = "connected")
    => viewerCount = rooms[room].peers

\* C19: a View is started with the room name and the user name its token was
\* requested for.
C19_ViewGetsRequestedNames ==
  [][(mode = "home" /\ mode' # "home")
       => (req.room = roomName' /\ req.identity = userName')]_vars

\* C20: every un-stopped capture track is the one videoTrack or audioTrack
\* refers to.
C20_NoOrphanedCapture ==
  mode = "broadcaster" => \A t \in TrackIds : Held(t) => t \in {videoTrack, audioTrack}

\* C21: whenever the View reports streaming and no handler is running, one
\* of its refs holds an un-stopped local track.
C21_StreamingHoldsATrack ==
  (mode = "broadcaster" /\ isStreaming /\ calls = <<>>)
    => \E t \in {videoTrack, audioTrack} \ {NoTrack} : Held(t)

\* C22: mode is broadcaster or viewer only with a non-empty token, and mode
\* is home only with an empty token.
C22_ModeMatchesToken ==
  /\ mode \in {"broadcaster", "viewer"} => Truthy(token)
  /\ mode = "home" => token = ""

\* C23: in the mounted Broadcaster View, connected is true exactly when
\* connectionState is connected.
C23_ConnectedIffStateConnected ==
  mode = "broadcaster" => (connected <=> connectionState = "connected")

====
